---------------------------- MODULE Spec2Model ----------------------------
(***************************************************************************)
(* A model of the read-only FAT32 parser (crate fat32_parser): the FAT     *)
(* entry value type (fat.rs), the boot-sector decoder and the volume       *)
(* geometry (boot_sector.rs), the short-name directory entry               *)
(* (dir_entry.rs) and the filesystem facade (filesystem.rs): mount,        *)
(* read_fat_entry, read_cluster, read_cluster_chain and the directory      *)
(* iterator.                                                               *)
(*                                                                         *)
(* Rust's u32 is modelled at its real width.  TLC's integers stop at       *)
(* 2^31 - 1, so a u32 is a record [hi, lo] of two 16-bit limbs, of value   *)
(* hi * 2^16 + lo; the arithmetic helpers below say when a result leaves   *)
(* the 32 bits.                                                            *)
(***************************************************************************)
EXTENDS Naturals, Sequences, FiniteSets, TLC

VARIABLES
    \* ---- FatEntry harness (fat.rs) ----
    raw_word,         \* a 4-byte FAT slot as it lies on disk, little-endian
    fe_via,           \* how the entry was built: "new" | "read" | "none"
    fat_entry,        \* the FatEntry built from raw_word, or NoEntry
    fe_class,         \* the four accessors' answers on fat_entry, or NoClass
    \* ---- the build ----
    overflow_checks,  \* TRUE: u32 overflow panics (debug); FALSE: it wraps
    \* ---- mount (filesystem.rs) ----
    boot_sector,      \* the byte slice handed to mount: [len, bytes]
    mount_result,     \* NotMounted, Ok(handle geometry), Err(e) or Panic
    \* ---- the medium behind the block device ----
    image,            \* its layout, FAT table and cluster contents
    trace,            \* the device reads and visitor calls made, in order
    \* ---- read_cluster_chain (filesystem.rs) ----
    w_pc,             \* "idle" | "loop" | "visit" | "fat" | "done"
    w_start,          \* the call's start_cluster argument
    current_cluster,
    cluster_count,
    buf,              \* the walker's 4096-byte scratch buffer, in records
    w_result,         \* the call's return value once w_pc = "done"
    \* ---- DirectoryIterator (filesystem.rs) ----
    it_pc,            \* "none" | "ready" | "running" | "failed"
    it_new,           \* what read_root_dir returned
    it_cluster,       \* the iterator's fields cluster, offset, buffer, done
    it_offset,
    it_buffer,
    it_done,
    returned,         \* what the calls of next_entry returned, in order
    it_reads,         \* per call of next_entry: did it issue a device read
    it_log,           \* the device reads of the iterator's latest load
    \* ---- one call of the facade (filesystem.rs, boot_sector.rs) ----
    call,             \* the call made: [op, cluster, buf_len], or NoCall
    outcome,          \* its result, device reads and buffer, or NoOutcome
    \* ---- BumpAllocator (allocator.rs) ----
    heap,             \* struct Heap: start, end, next
    al_log,           \* the calls of init and alloc made, with what they returned
    al_freed          \* the entries of al_log whose pointer was passed to dealloc

fatVars == <<raw_word, fe_via, fat_entry, fe_class>>

mountVars == <<boot_sector, mount_result>>

walkVars == <<w_pc, w_start, current_cluster, cluster_count, buf, w_result>>

dirVars == <<it_pc, it_new, it_cluster, it_offset, it_buffer, it_done, returned,
             it_reads, it_log>>

callVars == <<call, outcome>>

allocVars == <<heap, al_log, al_freed>>

vars == <<raw_word, fe_via, fat_entry, fe_class, overflow_checks,
          boot_sector, mount_result, image, trace,
          w_pc, w_start, current_cluster, cluster_count, buf, w_result,
          it_pc, it_new, it_cluster, it_offset, it_buffer, it_done, returned,
          it_reads, it_log, call, outcome, heap, al_log, al_freed>>

-----------------------------------------------------------------------------
(* u32 values *)

Limb == 2^16

U32(n) == [hi |-> n \div Limb, lo |-> n % Limb]

U32Lt(a, b) == a.hi < b.hi \/ (a.hi = b.hi /\ a.lo < b.lo)

U32Ge(a, b) == ~U32Lt(a, b)

\* u32::from_le_bytes([b[1], b[2], b[3], b[4]])
u32_from_le_bytes(b) == [hi |-> b[4] * 256 + b[3], lo |-> b[2] * 256 + b[1]]

\* value & 0x0FFFFFFF
U32And0FFFFFFF(a) == [hi |-> a.hi % 4096, lo |-> a.lo]

\* The value of a u32 below 2^31.
N(a) == a.hi * Limb + a.lo

\* a / d and a % d on u32, for a divisor 0 < d < 2^16 (long division, a byte
\* of the low limb at a time).
U32DivMod(a, d) ==
    LET t1 == (a.hi % d) * 256 + a.lo \div 256
        t2 == (t1 % d) * 256 + (a.lo % 256)
    IN  [q |-> [hi |-> a.hi \div d, lo |-> (t1 \div d) * 256 + t2 \div d],
         r |-> t2 % d]

\* a + b on u32: the wrapped sum, and whether it left the 32 bits.
U32Add(a, b) ==
    LET lo == a.lo + b.lo
        hi == a.hi + b.hi + lo \div Limb
    IN  [v |-> [hi |-> hi % Limb, lo |-> lo % Limb], overflow |-> hi >= Limb]

\* k * a on u32, for a factor k below 2^15: the wrapped product, and whether
\* it left the 32 bits.
U32Mul(k, a) ==
    LET lo == k * a.lo
        hi == k * a.hi + lo \div Limb
    IN  [v |-> [hi |-> hi % Limb, lo |-> lo % Limb], overflow |-> hi >= Limb]

None == [some |-> FALSE]

Some(v) == [some |-> TRUE, v |-> v]

-----------------------------------------------------------------------------
(* fat.rs: FatEntry *)

FatEntry_new(value) == [value |-> value]

is_end(e) == U32Ge(e.value, U32(\h0FFFFFF8))

is_free(e) == e.value = U32(0)

is_bad(e) == e.value = U32(\h0FFFFFF7)

next_cluster_FreeFollows(e) ==
    IF is_bad(e) \/ is_end(e)
    THEN None
    ELSE Some(U32And0FFFFFFF(e.value))

next_cluster(e) ==
    IF is_free(e) \/ is_bad(e) \/ is_end(e)
    THEN None
    ELSE Some(U32And0FFFFFFF(e.value))

\* filesystem.rs, read_fat_entry: the slot's four bytes, decoded and masked
DecodeFatSlot(bytes) == FatEntry_new(U32And0FFFFFFF(u32_from_le_bytes(bytes)))

Classification(e) ==
    [is_free |-> is_free(e), is_bad |-> is_bad(e), is_end |-> is_end(e),
     next_cluster |-> next_cluster(e)]

NoEntry == [built |-> FALSE]

NoClass == [classified |-> FALSE]

\* The bytes of the slot whose low 28 bits are n and whose top 4 bits are t.
SlotBytes(n, t) ==
    <<n % 256, (n \div 256) % 256, (n \div 65536) % 256, (n \div 2^24) + 16 * t>>

LowValues ==
    {0, 1, 2, 3, 5, \h0FFFFFEF, \h0FFFFFF0, \h0FFFFFF6, \h0FFFFFF7,
     \h0FFFFFF8, \h0FFFFFFF}

TopNibbles == {0, 1, 8, 15}

FatSlots == {SlotBytes(n, t) : n \in LowValues, t \in TopNibbles}

FatIdle ==
    /\ raw_word = SlotBytes(0, 0)
    /\ fe_via = "none"
    /\ fat_entry = NoEntry
    /\ fe_class = NoClass

InitFat ==
    /\ raw_word \in FatSlots
    /\ fe_via = "none"
    /\ fat_entry = NoEntry
    /\ fe_class = NoClass
    /\ overflow_checks = FALSE
    /\ boot_sector = [len |-> 0, bytes |-> <<>>]
    /\ mount_result = [tag |-> "none"]
    /\ image = [formatted |-> FALSE]
    /\ trace = <<>>
    /\ w_pc = "idle"
    /\ w_start = [hi |-> 0, lo |-> 0]
    /\ current_cluster = [hi |-> 0, lo |-> 0]
    /\ cluster_count = 0
    /\ buf = <<>>
    /\ w_result = [tag |-> "none"]
    /\ it_pc = "none"
    /\ it_new = [tag |-> "none"]
    /\ it_cluster = [hi |-> 0, lo |-> 0]
    /\ it_offset = 0
    /\ it_buffer = <<>>
    /\ it_done = FALSE
    /\ returned = <<>>
    /\ it_reads = <<>>
    /\ it_log = <<>>
    /\ call = [op |-> "none"]
    /\ outcome = [res |-> [tag |-> "none"]]
    /\ heap = [start |-> [hi |-> 0, lo |-> 0], end |-> [hi |-> 0, lo |-> 0],
               next |-> [hi |-> 0, lo |-> 0]]
    /\ al_log = <<>>
    /\ al_freed = {}

\* A client wraps the raw word: FatEntry::new(u32::from_le_bytes(slot)).
FatEntryNew ==
    /\ fe_via = "none"
    /\ fe_via' = "new"
    /\ fat_entry' = FatEntry_new(u32_from_le_bytes(raw_word))
    /\ UNCHANGED <<raw_word, fe_class, overflow_checks, allocVars, mountVars, image, trace,
                   walkVars, dirVars, callVars>>

\* The facade builds the entry, as read_fat_entry does from the sector bytes.
FatEntryRead ==
    /\ fe_via = "none"
    /\ fe_via' = "read"
    /\ fat_entry' = DecodeFatSlot(raw_word)
    /\ UNCHANGED <<raw_word, fe_class, overflow_checks, allocVars, mountVars, image, trace,
                   walkVars, dirVars, callVars>>

\* The four accessors are called on the entry.
Classify ==
    /\ fe_via # "none"
    /\ fe_class = NoClass
    /\ fe_class' = Classification(fat_entry)
    /\ UNCHANGED <<raw_word, fe_via, fat_entry, overflow_checks, allocVars, mountVars,
                   image, trace, walkVars, dirVars, callVars>>

NextFat == FatEntryNew \/ FatEntryRead \/ Classify

SpecFat == InitFat /\ [][NextFat]_vars

-----------------------------------------------------------------------------
(* C5, C6 *)

\* C5: for every 32-bit FAT word w, the accessors of the entry built from w
\* answer as those of the entry built from w & 0x0FFFFFFF: the top 4 bits
\* never change is_free, is_bad, is_end or next_cluster.
C5_TopBitsIgnored ==
    fe_class # NoClass =>
        fe_class =
            Classification(FatEntry_new(U32And0FFFFFFF(u32_from_le_bytes(raw_word))))

\* C6: next_cluster is Some(v & 0x0FFFFFFF) exactly when the entry value v is
\* none of free (0), reserved (1), bad (0x0FFFFFF7), end-of-chain
\* (>= 0x0FFFFFF8), and None in those four cases.
C6_NextClusterIff ==
    fe_class # NoClass =>
        LET v == fat_entry.value
            special ==
                \/ v = U32(0)
                \/ v = U32(1)
                \/ v = U32(\h0FFFFFF7)
                \/ U32Ge(v, U32(\h0FFFFFF8))
        IN  fe_class.next_cluster =
                IF special THEN None ELSE Some(U32And0FFFFFFF(v))

-----------------------------------------------------------------------------
(* error.rs, boot_sector.rs, filesystem.rs: mount *)

Ok(x) == [tag |-> "Ok", v |-> x]

Err(e) == [tag |-> "Err", err |-> e]

Fat32Error(kind) == [kind |-> kind]

InvalidCluster(c) == [kind |-> "InvalidCluster", cluster |-> c]

\* An arithmetic overflow, a division by zero or an index out of range:
\* the call does not return.
Panic == [tag |-> "Panic"]

NotMounted == [tag |-> "none"]

le16(sector, off) == sector.bytes[off] + 256 * sector.bytes[off + 1]

le32(sector, off) ==
    u32_from_le_bytes(<<sector.bytes[off], sector.bytes[off + 1],
                        sector.bytes[off + 2], sector.bytes[off + 3]>>)

\* The packed BPB overlaid at offset 11 of the sector (the fields the core
\* consumes).
BiosParameterBlock_from_sector(sector) ==
    [bytes_per_sector      |-> le16(sector, 11),
     sectors_per_cluster   |-> sector.bytes[13],
     reserved_sector_count |-> le16(sector, 14),
     num_fats              |-> sector.bytes[16],
     fat_size_16           |-> le16(sector, 22),
     fat_size_32           |-> le32(sector, 36),
     root_cluster          |-> le32(sector, 44)]

\* Fat32Geometry::from_bpb: the geometry, or a panic when the sum overflows
\* in a build that checks overflow.
from_bpb(bpb, checks) ==
    LET fats     == bpb.num_fats
        reserved == U32(bpb.reserved_sector_count)
        fat_size == IF bpb.fat_size_16 # 0
                    THEN U32(bpb.fat_size_16)
                    ELSE bpb.fat_size_32
        product  == U32Mul(fats, fat_size)
        sum      == U32Add(reserved, product.v)
    IN  IF checks /\ (product.overflow \/ sum.overflow)
        THEN Panic
        ELSE Ok([first_data_sector   |-> sum.v,
                 fat_start_lba       |-> reserved,
                 root_cluster        |-> bpb.root_cluster,
                 sectors_per_cluster |-> U32(bpb.sectors_per_cluster),
                 bytes_per_sector    |-> U32(bpb.bytes_per_sector)])

SignatureInvalid_BothWrong(sector) ==
    sector.bytes[510] # \h55 /\ sector.bytes[511] # \hAA

SignatureInvalid(sector) ==
    sector.bytes[510] # \h55 \/ sector.bytes[511] # \hAA

NotFat32Volume_Both(bpb) == bpb.fat_size_16 # 0 /\ bpb.fat_size_32 = U32(0)

NotFat32Volume(bpb) == bpb.fat_size_16 # 0 \/ bpb.fat_size_32 = U32(0)

\* Fat32Fs::mount(device, boot_sector)
mount(sector, checks) ==
    IF sector.len < 512 THEN Err(Fat32Error("InvalidBootSector"))
    ELSE IF SignatureInvalid(sector) THEN Err(Fat32Error("InvalidBootSector"))
    ELSE LET bpb == BiosParameterBlock_from_sector(sector)
         IN  IF NotFat32Volume(bpb) THEN Err(Fat32Error("NotFat32"))
             ELSE from_bpb(bpb, checks)

\* The offsets of a boot sector that mount reads; the other bytes of the
\* sector are not consumed.
BootOffsets ==
    {11, 12, 13, 14, 15, 16, 22, 23, 36, 37, 38, 39, 44, 45, 46, 47, 510, 511}

U32Byte(a, k) ==
    CASE k = 0 -> a.lo % 256
      [] k = 1 -> a.lo \div 256
      [] k = 2 -> a.hi % 256
      [] k = 3 -> a.hi \div 256

\* A byte slice of length len laid out as a boot sector with these fields.
BootSector(len, sig, bps, spc, rsv, fats, fs16, fs32, root) ==
    [len   |-> len,
     bytes |-> [o \in {x \in BootOffsets : x < len} |->
                  CASE o = 11 -> bps % 256
                    [] o = 12 -> bps \div 256
                    [] o = 13 -> spc
                    [] o = 14 -> rsv % 256
                    [] o = 15 -> rsv \div 256
                    [] o = 16 -> fats
                    [] o = 22 -> fs16 % 256
                    [] o = 23 -> fs16 \div 256
                    [] o \in 36..39 -> U32Byte(fs32, o - 36)
                    [] o \in 44..47 -> U32Byte(root, o - 44)
                    [] o = 510 -> sig[1]
                    [] o = 511 -> sig[2]]]

BootLens == {100, 511, 512}

Signatures == {<<\h55, \hAA>>, <<0, 0>>, <<\h55, 0>>, <<0, \hAA>>}

BytesPerSectorValues == {0, 512, 1024}

SectorsPerClusterValues == {0, 1, 3, 8, 16}

ReservedValues == {32, 65535}

NumFatsValues == {1, 2, 255}

FatSize16Values == {0, 240}

FatSize32Values ==
    {U32(0), U32(1009), [hi |-> 32768, lo |-> 0], [hi |-> 65535, lo |-> 65535]}

RootClusterValues == {U32(0), U32(2)}

BootSectors ==
    {BootSector(len, sig, bps, spc, rsv, fats, fs16, fs32, root) :
        len \in BootLens, sig \in Signatures, bps \in BytesPerSectorValues,
        spc \in SectorsPerClusterValues, rsv \in ReservedValues,
        fats \in NumFatsValues, fs16 \in FatSize16Values,
        fs32 \in FatSize32Values, root \in RootClusterValues}

NoImage == [formatted |-> FALSE]

NoResult == [tag |-> "none"]

WalkIdle ==
    /\ w_pc = "idle"
    /\ w_start = U32(0)
    /\ current_cluster = U32(0)
    /\ cluster_count = 0
    /\ buf = <<>>
    /\ w_result = NoResult

DirIdle ==
    /\ it_pc = "none"
    /\ it_new = NoResult
    /\ it_cluster = U32(0)
    /\ it_offset = 0
    /\ it_buffer = <<>>
    /\ it_done = FALSE
    /\ returned = <<>>
    /\ it_reads = <<>>
    /\ it_log = <<>>

NoCall == [op |-> "none"]

NoOutcome == [res |-> NoResult]

CallIdle == call = NoCall /\ outcome = NoOutcome

\* BumpAllocator::empty()
BumpAllocator_empty == [start |-> U32(0), end |-> U32(0), next |-> U32(0)]

AllocIdle == heap = BumpAllocator_empty /\ al_log = <<>> /\ al_freed = {}

InitMount ==
    /\ overflow_checks \in BOOLEAN
    /\ boot_sector \in BootSectors
    /\ mount_result = NotMounted
    /\ FatIdle
    /\ image = NoImage
    /\ trace = <<>>
    /\ WalkIdle
    /\ DirIdle
    /\ CallIdle
    /\ AllocIdle

Mount ==
    /\ mount_result = NotMounted
    /\ mount_result' = mount(boot_sector, overflow_checks)
    /\ UNCHANGED <<boot_sector, overflow_checks, allocVars, fatVars, image, trace, walkVars,
                   dirVars, callVars>>

NextMount == Mount

SpecMount == InitMount /\ [][NextMount]_vars

-----------------------------------------------------------------------------
(* block_device.rs: the medium behind the BlockDevice *)

SECTOR_SIZE == 512

DIR_ENTRY_SIZE == 32

BUFFER_SIZE == 4096

EntriesPerSector == SECTOR_SIZE \div DIR_ENTRY_SIZE

BufferEntries == BUFFER_SIZE \div DIR_ENTRY_SIZE

\* The last cluster of the medium: its data region holds clusters
\* 2..LastCluster.
LastCluster == 6

\* A 32-byte record of a data sector: the first name byte, the attribute
\* byte, and id standing for its other bytes.
Entry(name0, attributes, id) ==
    [name0 |-> name0, attributes |-> attributes, id |-> id]

ZeroEntry == Entry(0, 0, 0)

\* The medium is laid out as its boot sector says: img.reserved reserved
\* sectors, img.num_fats FATs of one sector each, then the data region in
\* clusters of img.spc sectors of SECTOR_SIZE bytes.
ImageFatStart(img) == img.reserved

ImageDataStart(img) == img.reserved + img.num_fats

ImageSectors(img) == ImageDataStart(img) + (LastCluster - 1) * img.spc

\* The 4 bytes of FAT slot i of the medium (slots past the table's written
\* part are free).
ImageFatSlot(img, i) ==
    IF i \in DOMAIN img.fat THEN img.fat[i] ELSE <<0, 0, 0, 0>>

\* Record k of the data of cluster c, from the cluster's pattern.
ClusterEntry(img, c, k) ==
    LET id   == (c - 2) * BufferEntries * 2 + k + 1
        n    == img.spc * EntriesPerSector
        file == Entry(\h41, \h20, id)
        pat  == img.pats[c]
    IN  CASE pat = "files"   -> file
          [] pat = "ends"    ->
                IF k = 0 \/ k = n - 1 THEN file ELSE Entry(\hE5, \h20, id)
          [] pat = "short"   -> IF k = 0 THEN file ELSE ZeroEntry
          [] pat = "mixed"   ->
                CASE k = 0     -> Entry(\h41, \h0F, id)
                  [] k = 1     -> file
                  [] k = 2     -> Entry(\hE5, \h20, id)
                  [] k = 3     -> Entry(\h41, \h08, id)
                  [] k = 4     -> Entry(\h41, \h10, id)
                  [] k = 5     -> Entry(\h41, \h28, id)
                  [] k = 6     -> Entry(\hE5, \h0F, id)
                  [] k = n - 1 -> file
                  [] OTHER     -> Entry(\hE5, \h20, id)
          [] pat = "deleted" -> Entry(\hE5, \h20, id)
          [] pat = "skipped" ->
                IF k % 2 = 0 THEN Entry(\hE5, \h20, id) ELSE Entry(\h41, \h08, id)
          [] OTHER           -> ZeroEntry

\* Record k (of EntriesPerSector) of sector lba of the medium, read as a
\* 32-byte record: a data sector holds its cluster's records; of a FAT
\* sector the record's first byte and attribute byte are those of FAT slots
\* 8k and 8k + 2; a reserved sector reads as zeros.
ImageRecord(img, lba, k) ==
    IF lba >= ImageDataStart(img)
    THEN LET s == lba - ImageDataStart(img)
         IN  ClusterEntry(img, 2 + s \div img.spc,
                          (s % img.spc) * EntriesPerSector + k)
    ELSE IF lba >= ImageFatStart(img)
    THEN Entry(ImageFatSlot(img, 8 * k)[1], ImageFatSlot(img, 8 * k + 2)[4], 0)
    ELSE ZeroEntry

\* The 4 bytes at byte offset off of sector lba, read as a FAT slot (off is a
\* multiple of 4 in every call of the facade).  Every FAT sector is a copy of
\* the one-sector table; a sector outside the FAT region reads as zeros.
ImageSlot(img, lba, off) ==
    IF lba >= ImageFatStart(img) /\ lba < ImageDataStart(img)
    THEN ImageFatSlot(img, off \div 4)
    ELSE <<0, 0, 0, 0>>

\* BlockDevice::read_sectors(lba, count, buf): OutOfBounds past the medium,
\* IoError when the device faults on this read, else Ok.
read_sectors(img, lba, count, fault) ==
    IF lba.hi # 0 \/ N(lba) + count > ImageSectors(img) THEN "OutOfBounds"
    ELSE IF fault THEN "IoError"
    ELSE "Ok"

Fat32Error_from_Crossed(e) ==
    CASE e = "IoError" -> Fat32Error("OutOfBounds")
      [] e = "OutOfBounds" -> Fat32Error("IoError")

\* impl From<BlockDeviceError> for Fat32Error
Fat32Error_from(e) ==
    CASE e = "IoError" -> Fat32Error("IoError")
      [] e = "OutOfBounds" -> Fat32Error("OutOfBounds")

-----------------------------------------------------------------------------
(* filesystem.rs: read_fat_entry, read_cluster *)

cluster_to_lba_FromOne(g, cluster) ==
    LET c1      == IF cluster.lo >= 1
                   THEN [hi |-> cluster.hi, lo |-> cluster.lo - 1]
                   ELSE [hi |-> cluster.hi - 1, lo |-> cluster.lo + Limb - 1]
        product == U32Mul(N(g.sectors_per_cluster), c1)
        sum     == U32Add(g.first_data_sector, product.v)
    IN  [v |-> sum.v, overflow |-> product.overflow \/ sum.overflow]

\* Fat32Geometry::cluster_to_lba: the LBA, and whether the arithmetic left
\* the 32 bits (cluster - 2 below zero included).
cluster_to_lba(g, cluster) ==
    LET c2      == IF cluster.lo >= 2
                   THEN [hi |-> cluster.hi, lo |-> cluster.lo - 2]
                   ELSE [hi |-> (cluster.hi + Limb - 1) % Limb,
                         lo |-> cluster.lo + Limb - 2]
        under   == cluster.hi = 0 /\ cluster.lo < 2
        product == U32Mul(N(g.sectors_per_cluster), c2)
        sum     == U32Add(g.first_data_sector, product.v)
    IN  [v |-> sum.v, overflow |-> under \/ product.overflow \/ sum.overflow]

\* (sectors_per_cluster * bytes_per_sector) as usize
cluster_size(g) == N(g.sectors_per_cluster) * N(g.bytes_per_sector)

FatClusterInvalid_OnlyZero(cluster) == cluster = U32(0)

\* read_fat_entry: cluster < 2
FatClusterInvalid(cluster) == U32Lt(cluster, U32(2))

\* Fat32Fs::read_fat_entry(cluster) on medium img; fault: the device faults
\* on the read.  The result, and the device reads issued.
read_fat_entry(g, img, cluster, checks, fault) ==
    IF FatClusterInvalid(cluster)
    THEN [res |-> Err(InvalidCluster(cluster)), reads |-> <<>>]
    ELSE
    LET fat_offset == U32Mul(4, cluster)
        bps        == N(g.bytes_per_sector)
    IN  IF (checks /\ fat_offset.overflow) \/ bps = 0
        THEN [res |-> Panic, reads |-> <<>>]
        ELSE
        LET dm           == U32DivMod(fat_offset.v, bps)
            fat_sector   == U32Add(g.fat_start_lba, dm.q)
            entry_offset == dm.r
        IN  IF checks /\ fat_sector.overflow
            THEN [res |-> Panic, reads |-> <<>>]
            ELSE
            LET dev  == read_sectors(img, fat_sector.v, 1, fault)
                read == <<[op |-> "read_sectors", lba |-> fat_sector.v, count |-> 1,
                         res |-> dev]>>
            IN  IF dev # "Ok"
                THEN [res |-> Err(Fat32Error_from(dev)), reads |-> read]
                ELSE IF entry_offset + 3 >= SECTOR_SIZE
                THEN [res |-> Panic, reads |-> read]
                ELSE [res   |-> Ok(DecodeFatSlot(
                                    ImageSlot(img, N(fat_sector.v), entry_offset))),
                      reads |-> read]

BufferTooShort_OneSector(g, buf_len) == buf_len < N(g.bytes_per_sector)

\* read_cluster: buf.len() < cluster_size
BufferTooShort(g, buf_len) == buf_len < cluster_size(g)

\* Fat32Fs::read_cluster(cluster, buf) with buf.len() = buf_len, buf holding
\* the records old.  The result, the records of buf afterwards, and the
\* device reads issued.
read_cluster(g, img, cluster, buf_len, old, checks, fault) ==
    IF U32Lt(cluster, U32(2))
    THEN [res |-> Err(InvalidCluster(cluster)), buf |-> old, reads |-> <<>>]
    ELSE IF BufferTooShort(g, buf_len)
    THEN [res |-> Err(Fat32Error("BufferTooSmall")), buf |-> old, reads |-> <<>>]
    ELSE
    LET lba == cluster_to_lba(g, cluster)
    IN  IF checks /\ lba.overflow
        THEN [res |-> Panic, buf |-> old, reads |-> <<>>]
        ELSE
        LET count == N(g.sectors_per_cluster)
            dev   == read_sectors(img, lba.v, count, fault)
            read  == <<[op |-> "read_sectors", lba |-> lba.v, count |-> count,
                        res |-> dev]>>
        IN  IF dev # "Ok"
            THEN [res |-> Err(Fat32Error_from(dev)), buf |-> old, reads |-> read]
            ELSE [res   |-> Ok("unit"),
                  buf   |-> [i \in DOMAIN old |->
                               IF i < count * EntriesPerSector
                                  /\ i * DIR_ENTRY_SIZE < buf_len
                               THEN ImageRecord(img, N(lba.v) + i \div EntriesPerSector,
                                                i % EntriesPerSector)
                               ELSE old[i]],
                  reads |-> read]

-----------------------------------------------------------------------------
(* filesystem.rs: read_cluster_chain *)

\* const MAX_CLUSTERS: u32 = 100000 in the source.  The walker reads it only
\* in the test cluster_count >= MAX_CLUSTERS; the model scales it down so
\* that a chain can be walked to the limit.
MAX_CLUSTERS == 3

\* The handle's geometry, after a successful mount.
geom == mount_result.v

ZeroBuffer == [i \in 0..(BufferEntries - 1) |-> ZeroEntry]

\* The boot sector of a medium formatted as img says.
VolumeBoot(img) ==
    BootSector(512, <<\h55, \hAA>>, SECTOR_SIZE, img.spc, img.reserved,
               img.num_fats, 0, U32(1), U32(img.root))

Tails == {"eoc8", "eocF", "free", "bad", "reserved", "self", "back", "beyond"}

TailValue(tail, last) ==
    CASE tail = "eoc8"     -> \h0FFFFFF8
      [] tail = "eocF"     -> \h0FFFFFFF
      [] tail = "free"     -> 0
      [] tail = "bad"      -> \h0FFFFFF7
      [] tail = "reserved" -> 1
      [] tail = "self"     -> last
      [] tail = "back"     -> 2
      [] tail = "beyond"   -> LastCluster + 1

\* A FAT whose chain 2 -> 3 -> ... -> last ends in the slot tail, every slot
\* written with the top nibble top; the clusters after last are free.
ChainFat(last, tail, top) ==
    [c \in 0..LastCluster |->
        CASE c = 0    -> SlotBytes(\h0FFFFFF8, 0)
          [] c = 1    -> SlotBytes(\h0FFFFFFF, 0)
          [] c < last -> SlotBytes(c + 1, top)
          [] c = last -> SlotBytes(TailValue(tail, last), top)
          [] OTHER    -> SlotBytes(0, 0)]

WalkImages ==
    {[formatted |-> TRUE, reserved |-> 32, num_fats |-> 2, spc |-> spc,
      root |-> 2, fat |-> ChainFat(last, tail, top),
      pats |-> [c \in 2..LastCluster |-> "files"]] :
        spc \in {1, 8, 16}, last \in 2..LastCluster, tail \in Tails,
        top \in {0, 15}}

StartClusters == {U32(0), U32(1), U32(2), U32(3)}

\* What the visitor may return: success, or an error of its own choosing.
VisitorResults ==
    {Ok("unit"), Err(Fat32Error("NotFound")), Err(Fat32Error("IoError"))}

InitWalk ==
    /\ overflow_checks \in BOOLEAN
    /\ image \in WalkImages
    /\ boot_sector = VolumeBoot(image)
    /\ mount_result = mount(boot_sector, overflow_checks)
    /\ trace = <<>>
    /\ FatIdle
    /\ WalkIdle
    /\ DirIdle
    /\ CallIdle
    /\ AllocIdle

BudgetExceeded_OffByOne(count) == count > MAX_CLUSTERS

BudgetExceeded(count) == count >= MAX_CLUSTERS

\* read_cluster_chain(start_cluster, callback) is called: the scratch buffer
\* is zeroed and the cluster size tested against it.
WalkStart(start_cluster) ==
    /\ w_pc = "idle"
    /\ w_start' = start_cluster
    /\ buf' = ZeroBuffer
    /\ IF cluster_size(geom) > BUFFER_SIZE
       THEN /\ w_result' = Err(Fat32Error("BufferTooSmall"))
            /\ w_pc' = "done"
            /\ UNCHANGED <<current_cluster, cluster_count>>
       ELSE /\ current_cluster' = start_cluster
            /\ cluster_count' = 0
            /\ w_pc' = "loop"
            /\ UNCHANGED w_result
    /\ UNCHANGED <<fatVars, overflow_checks, allocVars, mountVars, image, trace, dirVars, callVars>>

\* The head of the loop: the step budget, then read_cluster into the buffer.
WalkReadCluster ==
    /\ w_pc = "loop"
    /\ IF BudgetExceeded(cluster_count)
       THEN /\ w_result' = Err(InvalidCluster(current_cluster))
            /\ w_pc' = "done"
            /\ UNCHANGED <<buf, trace>>
       ELSE \E fault \in BOOLEAN :
              LET r == read_cluster(geom, image, current_cluster,
                                    cluster_size(geom), buf, overflow_checks, fault)
              IN  /\ trace' = trace \o r.reads
                  /\ buf' = r.buf
                  /\ IF r.res.tag = "Ok"
                     THEN w_pc' = "visit" /\ UNCHANGED w_result
                     ELSE w_pc' = "done" /\ w_result' = r.res
    /\ UNCHANGED <<w_start, current_cluster, cluster_count>>
    /\ UNCHANGED <<fatVars, overflow_checks, allocVars, mountVars, image, dirVars, callVars>>

VisitorFailed_Never(ret) == FALSE

\* The ? applied to the visitor's return value: an Err leaves the walk.
VisitorFailed(ret) == ret.tag # "Ok"

\* callback(current_cluster, &buf[..cluster_size]); its error is returned.
\* The event logged carries "Ok" or the kind of the error returned.
WalkVisit ==
    /\ w_pc = "visit"
    /\ \E ret \in VisitorResults :
          /\ trace' = Append(trace, [op |-> "callback", cluster |-> current_cluster,
                                     res |-> IF ret.tag = "Ok" THEN "Ok"
                                                               ELSE ret.err.kind])
          /\ IF VisitorFailed(ret)
             THEN w_pc' = "done" /\ w_result' = ret
             ELSE w_pc' = "fat" /\ UNCHANGED w_result
    /\ UNCHANGED <<w_start, current_cluster, cluster_count, buf>>
    /\ UNCHANGED <<fatVars, overflow_checks, allocVars, mountVars, image, dirVars, callVars>>

\* read_fat_entry(current_cluster), then the end of the chain or the advance.
WalkReadFat ==
    /\ w_pc = "fat"
    /\ \E fault \in BOOLEAN :
          LET r == read_fat_entry(geom, image, current_cluster, overflow_checks, fault)
          IN  /\ trace' = trace \o r.reads
              /\ IF r.res.tag # "Ok"
                 THEN /\ w_pc' = "done"
                      /\ w_result' = r.res
                      /\ UNCHANGED <<current_cluster, cluster_count>>
                 ELSE IF is_end(r.res.v)
                 THEN /\ w_pc' = "done"
                      /\ w_result' = Ok("unit")
                      /\ UNCHANGED <<current_cluster, cluster_count>>
                 ELSE IF next_cluster(r.res.v).some
                 THEN /\ current_cluster' = next_cluster(r.res.v).v
                      /\ cluster_count' = cluster_count + 1
                      /\ w_pc' = "loop"
                      /\ UNCHANGED w_result
                 ELSE /\ w_pc' = "done"
                      /\ w_result' = Ok("unit")
                      /\ UNCHANGED <<current_cluster, cluster_count>>
    /\ UNCHANGED <<w_start, buf>>
    /\ UNCHANGED <<fatVars, overflow_checks, allocVars, mountVars, image, dirVars, callVars>>

WalkStep == WalkReadCluster \/ WalkVisit \/ WalkReadFat

NextWalk == (\E start_cluster \in StartClusters : WalkStart(start_cluster)) \/ WalkStep

SpecWalk == InitWalk /\ [][NextWalk]_vars

-----------------------------------------------------------------------------
(* dir_entry.rs; filesystem.rs: read_root_dir, DirectoryIterator *)

\* DirectoryEntryRaw::is_unused
is_unused(entry) == entry.name0 = \h00 \/ entry.name0 = \hE5

\* The most calls of next_entry made on one iterator.
MaxCalls == 12

\* The last cluster of a directory's chain on the media iterated.
MaxDirLast == 3

\* A directory 2 -> ... -> last: its clusters before the last hold pattern
\* body, the last holds pattern final.
DirImages ==
    {[formatted |-> TRUE, reserved |-> 32, num_fats |-> 2, spc |-> spc,
      root |-> root, fat |-> ChainFat(last, tail, 0),
      pats |-> [c \in 2..LastCluster |-> IF c < last THEN body ELSE final]] :
        spc \in {1, 8, 16}, root \in {0, 2}, last \in 2..MaxDirLast,
        tail \in {"eocF", "free", "self"},
        body \in {"ends", "mixed", "deleted"},
        final \in {"short", "ends", "mixed"}}

InitDir ==
    /\ overflow_checks \in BOOLEAN
    /\ image \in DirImages
    /\ boot_sector = VolumeBoot(image)
    /\ mount_result = mount(boot_sector, overflow_checks)
    /\ trace = <<>>
    /\ FatIdle
    /\ WalkIdle
    /\ DirIdle
    /\ CallIdle
    /\ AllocIdle

\* read_root_dir(): DirectoryIterator::new(self, self.geom.root_cluster).
\* The slice buffer[..cluster_size] of the 4096-byte buffer panics when the
\* cluster is larger than the buffer.
ReadRootDir ==
    /\ it_pc = "none"
    /\ mount_result.tag = "Ok"
    /\ it_cluster' = geom.root_cluster
    /\ it_offset' = 0
    /\ it_done' = FALSE
    /\ IF cluster_size(geom) > BUFFER_SIZE
       THEN /\ it_buffer' = ZeroBuffer
            /\ it_new' = Panic
            /\ it_pc' = "failed"
            /\ UNCHANGED it_log
       ELSE \E fault \in BOOLEAN :
              LET r == read_cluster(geom, image, geom.root_cluster, cluster_size(geom),
                                    ZeroBuffer, overflow_checks, fault)
              IN  /\ it_buffer' = r.buf
                  /\ it_log' = r.reads
                  /\ IF r.res.tag = "Ok"
                     THEN it_new' = Ok("iterator") /\ it_pc' = "ready"
                     ELSE it_new' = r.res /\ it_pc' = "failed"
    /\ UNCHANGED <<returned, it_reads>>
    /\ UNCHANGED <<fatVars, overflow_checks, allocVars, mountVars, image, trace, walkVars,
                   callVars>>

IteratorDone_Never(done) == FALSE

\* next_entry: if self.done
IteratorDone(done) == done

\* next_entry() is called: a finished iterator answers Ok(None), else the
\* loop is entered.
NextEntryCall ==
    /\ it_pc = "ready"
    /\ Len(returned) < MaxCalls
    /\ it_reads' = Append(it_reads, FALSE)
    /\ it_log' = <<>>
    /\ IF IteratorDone(it_done)
       THEN returned' = Append(returned, Ok(None)) /\ UNCHANGED it_pc
       ELSE it_pc' = "running" /\ UNCHANGED returned
    /\ UNCHANGED <<it_new, it_cluster, it_offset, it_buffer, it_done>>
    /\ UNCHANGED <<fatVars, overflow_checks, allocVars, mountVars, image, trace, walkVars,
                   callVars>>

\* The device faults at most once under one iterator.
MayFault == {FALSE} \cup {f \in {TRUE} : \A i \in 1..Len(returned) : returned[i].tag = "Ok"}

\* next_entry returns ret; a panic ends the program.
Return(ret) ==
    /\ returned' = Append(returned, ret)
    /\ it_pc' = IF ret.tag = "Panic" THEN "failed" ELSE "ready"

\* The second half of a loop iteration, on the iterator's fields as the
\* first half left them: the record at offset is taken, offset += 32, then
\* the terminator, the skip and the yield.
ExamineEntry(cluster, offset, buffer) ==
    LET entry == buffer[offset \div DIR_ENTRY_SIZE]
    IN  /\ it_cluster' = cluster
        /\ it_buffer' = buffer
        /\ it_offset' = offset + DIR_ENTRY_SIZE
        /\ IF entry.name0 = \h00
           THEN it_done' = TRUE /\ Return(Ok(None))
           ELSE IF is_unused(entry) \/ entry.attributes = \h08
           THEN UNCHANGED <<it_done, it_pc, returned>>
           ELSE UNCHANGED it_done /\ Return(Ok(Some(entry)))

\* One iteration of the loop of next_entry: at offset >= 4096 the FAT entry
\* of the cluster is read and the next cluster loaded, then the record at
\* offset is examined.  (The results of the two reads are bound as values.)
NextEntryLoop ==
    /\ it_pc = "running"
    /\ IF it_offset >= BUFFER_SIZE
       THEN \E fat_fault, fault \in MayFault :
              \E fe \in {read_fat_entry(geom, image, it_cluster, overflow_checks,
                                        fat_fault)} :
                  /\ it_reads' = [it_reads EXCEPT ![Len(it_reads)] = @ \/ fe.reads # <<>>]
                  /\ IF fe.res.tag # "Ok"
                     THEN /\ Return(fe.res)
                          /\ it_log' = fe.reads
                          /\ UNCHANGED <<it_cluster, it_offset, it_buffer, it_done>>
                     ELSE IF is_end(fe.res.v) \/ ~next_cluster(fe.res.v).some
                     THEN /\ it_done' = TRUE
                          /\ Return(Ok(None))
                          /\ it_log' = fe.reads
                          /\ UNCHANGED <<it_cluster, it_offset, it_buffer>>
                     ELSE \E next \in {next_cluster(fe.res.v).v} :
                          \E r \in {read_cluster(geom, image, next,
                                                 cluster_size(geom), it_buffer,
                                                 overflow_checks, fault)} :
                              /\ it_log' = fe.reads \o r.reads
                              /\ IF r.res.tag # "Ok"
                                 THEN /\ it_cluster' = next
                                      /\ it_offset' = 0
                                      /\ it_buffer' = r.buf
                                      /\ Return(r.res)
                                      /\ UNCHANGED it_done
                                 ELSE ExamineEntry(next, 0, r.buf)
       ELSE /\ ExamineEntry(it_cluster, it_offset, it_buffer)
            /\ UNCHANGED <<it_reads, it_log>>
    /\ UNCHANGED it_new
    /\ UNCHANGED <<fatVars, overflow_checks, allocVars, mountVars, image, trace, walkVars,
                   callVars>>

NextDir == ReadRootDir \/ NextEntryCall \/ NextEntryLoop

SpecDir == InitDir /\ [][NextDir]_vars

\* Directories of one 4096-byte cluster holding only deleted slots and
\* volume labels, or only deleted slots; the cluster's FAT slot ends the
\* chain or names the cluster itself.
LoopImages ==
    {[formatted |-> TRUE, reserved |-> 32, num_fats |-> 2, spc |-> 8,
      root |-> 2, fat |-> ChainFat(2, tail, 0),
      pats |-> [c \in 2..LastCluster |-> pat]] :
        tail \in {"eocF", "self"}, pat \in {"skipped", "deleted"}}

InitLoop ==
    /\ overflow_checks \in BOOLEAN
    /\ image \in LoopImages
    /\ boot_sector = VolumeBoot(image)
    /\ mount_result = mount(boot_sector, overflow_checks)
    /\ trace = <<>>
    /\ FatIdle
    /\ WalkIdle
    /\ DirIdle
    /\ CallIdle
    /\ AllocIdle

\* A call of next_entry that has entered its loop keeps executing it.
SpecDirFair == InitLoop /\ [][NextDir]_vars /\ WF_vars(NextEntryLoop)

-----------------------------------------------------------------------------
(* boot_sector.rs, filesystem.rs: one call of cluster_to_lba, read_fat_entry *)
(* or read_cluster on a mounted volume                                       *)

\* The media behind the calls: the chain 2 -> 3 -> end-of-chain, every
\* cluster full of files.
CallImages ==
    {[formatted |-> TRUE, reserved |-> 32, num_fats |-> 2, spc |-> spc,
      root |-> 2, fat |-> ChainFat(3, "eocF", top),
      pats |-> [c \in 2..LastCluster |-> "files"]] :
        spc \in {1, 8}, top \in {0, 15}}

\* Boot sectors that mount accepts: the one the medium was formatted with
\* and ones that disagree with it.
CallBoots(img) ==
    {VolumeBoot(img)} \cup
    {BootSector(512, <<\h55, \hAA>>, bps, spc, 32, fats, 0, fs32, U32(2)) :
        bps \in {0, 512, 1024}, spc \in {0, 1, 8, 16}, fats \in {1, 2},
        fs32 \in {U32(1), [hi |-> 32768, lo |-> 0], [hi |-> 65535, lo |-> 65535]}}

CallClusters ==
    {U32(0), U32(1), U32(2), U32(3), U32(LastCluster), U32(LastCluster + 1),
     U32(128), U32(\h0FFFFFEF), [hi |-> 16384, lo |-> 0],
     [hi |-> 65535, lo |-> 65535]}

CallBufLens == {0, 512, 4096, 8192}

\* The caller's buffer of len bytes before the call, in records.
CallBuffer(len) ==
    [i \in 0..(len \div DIR_ENTRY_SIZE - 1) |-> Entry(\h42, \h20, 9000 + i)]

InitCall ==
    /\ overflow_checks \in BOOLEAN
    /\ image \in CallImages
    /\ boot_sector \in CallBoots(image)
    /\ mount_result = mount(boot_sector, overflow_checks)
    /\ trace = <<>>
    /\ FatIdle
    /\ WalkIdle
    /\ DirIdle
    /\ CallIdle
    /\ AllocIdle

\* geom.cluster_to_lba(cluster)
CallClusterToLba(cluster) ==
    /\ call = NoCall
    /\ mount_result.tag = "Ok"
    /\ call' = [op |-> "cluster_to_lba", cluster |-> cluster, buf_len |-> 0]
    /\ LET lba == cluster_to_lba(geom, cluster)
       IN  outcome' = [res |-> IF overflow_checks /\ lba.overflow
                               THEN Panic ELSE Ok(lba.v)]
    /\ UNCHANGED <<fatVars, overflow_checks, allocVars, mountVars, image, trace, walkVars,
                   dirVars>>

\* fs.read_fat_entry(cluster)
CallReadFatEntry(cluster) ==
    /\ call = NoCall
    /\ mount_result.tag = "Ok"
    /\ call' = [op |-> "read_fat_entry", cluster |-> cluster, buf_len |-> 0]
    /\ \E fault \in BOOLEAN :
          outcome' = read_fat_entry(geom, image, cluster, overflow_checks, fault)
    /\ UNCHANGED <<fatVars, overflow_checks, allocVars, mountVars, image, trace, walkVars,
                   dirVars>>

\* fs.read_cluster(cluster, buf) with buf.len() = buf_len
CallReadCluster(cluster, buf_len) ==
    /\ call = NoCall
    /\ mount_result.tag = "Ok"
    /\ call' = [op |-> "read_cluster", cluster |-> cluster, buf_len |-> buf_len]
    /\ \E fault \in BOOLEAN :
          outcome' = read_cluster(geom, image, cluster, buf_len,
                                  CallBuffer(buf_len), overflow_checks, fault)
    /\ UNCHANGED <<fatVars, overflow_checks, allocVars, mountVars, image, trace, walkVars,
                   dirVars>>

NextCall ==
    \E cluster \in CallClusters :
        \/ CallClusterToLba(cluster)
        \/ CallReadFatEntry(cluster)
        \/ \E buf_len \in CallBufLens : CallReadCluster(cluster, buf_len)

SpecCall == InitCall /\ [][NextCall]_vars

-----------------------------------------------------------------------------
(* filesystem.rs: every operation that reads the device, on one volume *)

\* Directories 2 -> ... -> last whose chain ends, loops, or leaves the
\* medium (the cluster after the last one of the medium).
IoImages ==
    {[formatted |-> TRUE, reserved |-> 32, num_fats |-> 2, spc |-> spc,
      root |-> 2, fat |-> ChainFat(last, tail, 0),
      pats |-> [c \in 2..LastCluster |-> "mixed"]] :
        spc \in {1, 8}, last \in 2..3, tail \in {"eocF", "self", "beyond"}}

InitIo ==
    /\ overflow_checks \in BOOLEAN
    /\ image \in IoImages
    /\ boot_sector = VolumeBoot(image)
    /\ mount_result = mount(boot_sector, overflow_checks)
    /\ trace = <<>>
    /\ FatIdle
    /\ WalkIdle
    /\ DirIdle
    /\ CallIdle
    /\ AllocIdle

\* The client of the handle walks a chain, or makes one call of the facade,
\* or iterates the root directory.
NextIo ==
    \/ call = NoCall /\ it_pc = "none" /\ NextWalk
    \/ w_pc = "idle" /\ it_pc = "none" /\ NextCall
    \/ w_pc = "idle" /\ call = NoCall /\ NextDir

SpecIo == InitIo /\ [][NextIo]_vars

-----------------------------------------------------------------------------
(* allocator.rs: BumpAllocator.  usize is the 32-bit word of a 32-bit    *)
(* target, held in two limbs like u32.                                    *)

UsizeMax == [hi |-> Limb - 1, lo |-> Limb - 1]

\* a - 1 on usize: the wrapped difference, and whether it went below zero.
UsizeDec(a) ==
    IF a.lo > 0 THEN [v |-> [hi |-> a.hi, lo |-> a.lo - 1], overflow |-> FALSE]
    ELSE IF a.hi > 0 THEN [v |-> [hi |-> a.hi - 1, lo |-> Limb - 1], overflow |-> FALSE]
    ELSE [v |-> UsizeMax, overflow |-> TRUE]

\* x & !(align - 1), for align a power of two.
AndNotLowBits(x, align) ==
    IF align.hi = 0
    THEN [hi |-> x.hi, lo |-> x.lo - (x.lo % align.lo)]
    ELSE [hi |-> x.hi - (x.hi % align.hi), lo |-> 0]

\* align_up(addr, align) = (addr + align - 1) & !(align - 1): the wrapped
\* value, and whether addr + align - 1 left the word.
align_up(addr, align) ==
    LET sum == U32Add(addr, align)
        dec == UsizeDec(sum.v)
    IN  [v |-> AndNotLowBits(dec.v, align), overflow |-> sum.overflow \/ dec.overflow]

\* usize::saturating_add
saturating_add(a, b) ==
    LET sum == U32Add(a, b)
    IN  IF sum.overflow THEN UsizeMax ELSE sum.v

\* ptr::null_mut()
null_mut == U32(0)

\* BumpAllocator::init(heap_start, heap_size)
BumpAllocator_init(heap_start, heap_size) ==
    [start |-> heap_start, end |-> U32Add(heap_start, heap_size).v,
     next |-> heap_start]

\* Where the link may place the static HEAP_MEMORY of 65536 bytes.
HEAP_MEMORY == {U32(131072), [hi |-> 65534, lo |-> 0]}

\* alloc makes a &mut Heap, and init, called for the lazy initialisation,
\* makes a second one and writes through it while the first is still in
\* use: the fields alloc reads afterwards are those init wrote ("fresh"),
\* or those read before the call ("stale", next and end both; "stale_next",
\* next alone).
LazyReads == {"fresh", "stale", "stale_next"}

\* The layouts requested: small ones, a 64 KiB alignment, and a request of
\* isize::MAX - 15 bytes.
Layouts ==
    {[size |-> U32(size), align |-> U32(align)] :
        size \in {1, 16, 241}, align \in {1, 16, 65536}}
    \cup {[size |-> [hi |-> 32767, lo |-> 65520], align |-> U32(16)]}

\* The heaps handed to init: the one of the test, and two at the top of
\* the address space, ending 16 bytes and 1 byte below 2^32.
Heaps ==
    {[start |-> U32(4096), size |-> U32(1024)],
     [start |-> [hi |-> 65535, lo |-> 65280], size |-> U32(240)],
     [start |-> [hi |-> 65535, lo |-> 65280], size |-> U32(255)]}

\* The most calls of init and alloc made on one allocator.
MaxAllocCalls == 3

\* GlobalAlloc::alloc(layout) on heap h: the heap afterwards and the
\* pointer returned, or the panic of an arithmetic overflow in a build
\* that checks.
alloc(h, layout, checks, static_addr, lazy) ==
    LET inited == IF h.start = U32(0)
                  THEN BumpAllocator_init(static_addr, U32(65536))
                  ELSE h
        seen   == IF h.start # U32(0) \/ lazy = "fresh" THEN inited
                  ELSE IF lazy = "stale" THEN h
                  ELSE [inited EXCEPT !.next = h.next]
        alloc_start == align_up(seen.next, layout.align)
        alloc_end   == saturating_add(alloc_start.v, layout.size)
    IN  IF checks /\ alloc_start.overflow
        THEN [heap |-> inited, ret |-> Panic]
        ELSE IF U32Lt(seen.end, alloc_end)
        THEN [heap |-> inited, ret |-> Ok(null_mut)]
        ELSE [heap |-> [inited EXCEPT !.next = alloc_end], ret |-> Ok(alloc_start.v)]

InitAlloc ==
    /\ overflow_checks \in BOOLEAN
    /\ boot_sector = [len |-> 0, bytes |-> <<>>]
    /\ mount_result = NotMounted
    /\ image = NoImage
    /\ trace = <<>>
    /\ FatIdle
    /\ WalkIdle
    /\ DirIdle
    /\ CallIdle
    /\ AllocIdle

AllocPanicked == al_log # <<>> /\ al_log[Len(al_log)].ret.tag = "Panic"

\* allocator.init(heap_start, heap_size), once and before any allocation.
AllocInit ==
    /\ al_log = <<>>
    /\ \E h \in Heaps :
          /\ heap' = BumpAllocator_init(h.start, h.size)
          /\ al_log' = <<[op |-> "init", start |-> h.start, size |-> h.size,
                          ret |-> Ok("unit")]>>
    /\ UNCHANGED <<al_freed, fatVars, overflow_checks, mountVars, image, trace,
                   walkVars, dirVars, callVars>>

\* allocator.alloc(layout)
Alloc ==
    /\ Len(al_log) < MaxAllocCalls
    /\ ~AllocPanicked
    /\ \E layout \in Layouts, static_addr \in HEAP_MEMORY, lazy \in LazyReads :
          LET r == alloc(heap, layout, overflow_checks, static_addr, lazy)
          IN  /\ heap' = r.heap
              /\ al_log' = Append(al_log, [op |-> "alloc", layout |-> layout,
                                           before |-> heap.next,
                                           after |-> r.heap.next, ret |-> r.ret])
    /\ UNCHANGED <<al_freed, fatVars, overflow_checks, mountVars, image, trace,
                   walkVars, dirVars, callVars>>

\* allocator.dealloc(ptr, layout), of a pointer alloc returned: nothing.
Dealloc ==
    /\ ~AllocPanicked
    /\ \E i \in (1..Len(al_log)) \ al_freed :
          /\ al_log[i].op = "alloc"
          /\ al_log[i].ret # Ok(null_mut)
          /\ al_freed' = al_freed \cup {i}
    /\ UNCHANGED <<heap, al_log, fatVars, overflow_checks, mountVars, image, trace,
                   walkVars, dirVars, callVars>>

NextAlloc == AllocInit \/ Alloc \/ Dealloc

SpecAlloc == InitAlloc /\ [][NextAlloc]_vars

-----------------------------------------------------------------------------
(* C7 - C10 *)

SignatureOk == boot_sector.bytes[510] = 85 /\ boot_sector.bytes[511] = 170

BootFatSize16 == boot_sector.bytes[22] + 256 * boot_sector.bytes[23]

BootFatSize32IsZero == \A o \in 36..39 : boot_sector.bytes[o] = 0

\* C7: mount returns InvalidBootSector for every slice shorter than 512 bytes
\* or whose bytes 510, 511 are not 0x55, 0xAA, whatever its BPB says: never
\* NotFat32, never a handle.
C7_InvalidBootSector ==
    (mount_result # NotMounted /\ (boot_sector.len < 512 \/ ~SignatureOk))
        => mount_result = Err(Fat32Error("InvalidBootSector"))

\* A 512-byte sector with one wrong signature byte and a FAT16 BPB was
\* refused as InvalidBootSector.
C7_Witness ==
    /\ mount_result = Err(Fat32Error("InvalidBootSector"))
    /\ boot_sector.len >= 512
    /\ boot_sector.bytes[510] = 85
    /\ boot_sector.bytes[511] # 170
    /\ BootFatSize16 # 0

\* C8: a sector of at least 512 bytes with a valid signature whose BPB has
\* fat_size_16 != 0 or fat_size_32 == 0 is refused with NotFat32.
C8_NotFat32 ==
    (/\ mount_result # NotMounted
     /\ boot_sector.len >= 512
     /\ SignatureOk
     /\ (BootFatSize16 # 0 \/ BootFatSize32IsZero))
        => mount_result = Err(Fat32Error("NotFat32"))

\* A signed sector with fat_size_16 = 0 and fat_size_32 = 0 was refused as
\* NotFat32.
C8_Witness ==
    /\ mount_result = Err(Fat32Error("NotFat32"))
    /\ BootFatSize16 = 0
    /\ BootFatSize32IsZero

IsPowerOfTwo(n) == n \in {1, 2, 4, 8, 16, 32, 64, 128}

\* C9: the geometry of every handle mount returns has sectors_per_cluster a
\* power of two (so > 0), a cluster of at most 4096 bytes, and
\* root_cluster >= 2.
C9_GeometryInvariants ==
    mount_result.tag = "Ok" =>
        LET g == mount_result.v
        IN  /\ N(g.sectors_per_cluster) > 0
            /\ IsPowerOfTwo(N(g.sectors_per_cluster))
            /\ N(g.sectors_per_cluster) * N(g.bytes_per_sector) <= 4096
            /\ U32Ge(g.root_cluster, U32(2))

\* C10: on a successful mount first_data_sector is exactly
\* reserved_sector_count + num_fats * fat_size_32, fat_start_lba is
\* reserved_sector_count, and root_cluster, sectors_per_cluster and
\* bytes_per_sector are the BPB's.
C10_GeometryDerivation ==
    mount_result.tag = "Ok" =>
        LET g    == mount_result.v
            b    == boot_sector.bytes
            rsv  == b[14] + 256 * b[15]
            \* the exact sum, as q * 2^16 + r
            low  == b[16] * (b[36] + 256 * b[37]) + rsv
            q    == b[16] * (b[38] + 256 * b[39]) + low \div Limb
            r    == low % Limb
        IN  /\ q < Limb
            /\ g.first_data_sector = [hi |-> q, lo |-> r]
            /\ g.fat_start_lba = U32(rsv)
            /\ g.root_cluster = le32(boot_sector, 44)
            /\ N(g.sectors_per_cluster) = b[13]
            /\ N(g.bytes_per_sector) = b[11] + 256 * b[12]

-----------------------------------------------------------------------------
(* C3, C4 *)

\* The low 28 bits of a FAT slot.
SlotLow28(b) == b[1] + 256 * b[2] + 65536 * b[3] + 2^24 * (b[4] % 16)

\* The clusters of the medium's data region.
OnMedium(c) == c \in 2..LastCluster

\* The chain of clusters that starts at c, as the medium's FAT links them, cut
\* after fuel clusters.
RECURSIVE ChainFrom(_, _, _)
ChainFrom(img, c, fuel) ==
    IF fuel = 0 THEN <<>>
    ELSE LET low == SlotLow28(ImageFatSlot(img, c))
         IN  IF OnMedium(low)
             THEN <<c>> \o ChainFrom(img, low, fuel - 1)
             ELSE <<c>>

\* The chain from the walk's start cluster; LastCluster clusters are more
\* than the medium has, so a chain that long runs through a cycle.
WalkChain == ChainFrom(image, N(w_start), LastCluster)

StartOnMedium == w_start.hi = 0 /\ OnMedium(w_start.lo)

CyclicChain == StartOnMedium /\ Len(WalkChain) = LastCluster

\* The chain ends in a cluster whose FAT entry is end-of-chain.
WellFormedChain ==
    /\ StartOnMedium
    /\ Len(WalkChain) < LastCluster
    /\ SlotLow28(ImageFatSlot(image, WalkChain[Len(WalkChain)])) >= \h0FFFFFF8

\* No device read faulted and the visitor never failed.
NoFault ==
    \A i \in 1..Len(trace) :
        /\ trace[i].op = "read_sectors" => trace[i].res # "IoError"
        /\ trace[i].op = "callback" => trace[i].res = "Ok"

Visits == SelectSeq(trace, LAMBDA e : e.op = "callback")

WalkFits == cluster_size(geom) <= BUFFER_SIZE

\* The events of a complete walk of chain: per cluster, the read of its
\* data, the visitor call, the read of its FAT sector.
ExpectedTrace(img, chain) ==
    [i \in 1..(3 * Len(chain)) |->
        LET c == chain[(i + 2) \div 3]
        IN  CASE i % 3 = 1 ->
                    [op |-> "read_sectors",
                     lba |-> U32(ImageDataStart(img) + (c - 2) * img.spc),
                     count |-> img.spc, res |-> "Ok"]
              [] i % 3 = 2 ->
                    [op |-> "callback", cluster |-> U32(c), res |-> "Ok"]
              [] OTHER ->
                    [op |-> "read_sectors",
                     lba |-> U32(ImageFatStart(img) + (4 * c) \div SECTOR_SIZE),
                     count |-> 1, res |-> "Ok"]]

\* The visitor is about to be called with the data of current_cluster.
VisitorGetsClusterData ==
    w_pc = "visit" =>
        \A i \in 0..(cluster_size(geom) \div DIR_ENTRY_SIZE - 1) :
            buf[i] = ClusterEntry(image, N(current_cluster), i)

C3_Bounded ==
    /\ Len(Visits) <= MAX_CLUSTERS
    /\ Len(trace) <= 3 * MAX_CLUSTERS
    /\ (w_pc = "done" /\ CyclicChain /\ NoFault /\ WalkFits) =>
            /\ w_result = Err(InvalidCluster(
                    U32(ChainFrom(image, N(w_start), MAX_CLUSTERS + 1)[MAX_CLUSTERS + 1])))
            /\ w_result = Err(InvalidCluster(current_cluster))
            /\ Len(Visits) = MAX_CLUSTERS

\* C3: read_cluster_chain terminates on every volume: each step of the walk
\* either returns or adds one event (a device read or a visitor call) to a
\* trace that never holds more than 3 * MAX_CLUSTERS events, the visitor
\* being called at most MAX_CLUSTERS times; on a cyclic chain (a cluster
\* whose FAT entry points to itself included) whose reads and visits
\* succeed the walk returns InvalidCluster(current_cluster) once the step
\* budget is spent.
C3_WalkTerminates ==
    /\ [](C3_Bounded)
    /\ [][WalkStep => (w_pc' = "done" \/ Len(trace') = Len(trace) + 1)]_vars

\* A walk of a chain whose cluster points to itself ended with
\* InvalidCluster of that cluster after MAX_CLUSTERS visits.
C3_Witness ==
    /\ w_pc = "done"
    /\ SlotLow28(ImageFatSlot(image, 2)) = 2
    /\ w_start = U32(2)
    /\ w_result = Err(InvalidCluster(U32(2)))
    /\ Len(Visits) = MAX_CLUSTERS

\* C4 (as claimed): on a chain start -> ... -> cn that ends in an
\* end-of-chain entry, with reads and visits succeeding, the walk returns
\* success after the events read data, visit, read FAT entry of each
\* cluster of the chain in order, once each, the visitor being handed the
\* cluster's data.
C4_VisitsChainInOrder ==
    /\ VisitorGetsClusterData
    /\ (w_pc = "done" /\ WellFormedChain /\ NoFault /\ WalkFits) =>
            /\ w_result = Ok("unit")
            /\ trace = ExpectedTrace(image, WalkChain)

\* C4 (amended): the same, for a chain of at most MAX_CLUSTERS clusters.
C4_VisitsShortChainInOrder ==
    /\ VisitorGetsClusterData
    /\ (/\ w_pc = "done" /\ WellFormedChain /\ NoFault /\ WalkFits
        /\ Len(WalkChain) <= MAX_CLUSTERS) =>
            /\ w_result = Ok("unit")
            /\ trace = ExpectedTrace(image, WalkChain)

\* A walk of a three-cluster chain returned success after its nine events.
C4_Witness ==
    /\ w_pc = "done"
    /\ w_result = Ok("unit")
    /\ WellFormedChain
    /\ Len(WalkChain) = 3
    /\ Len(trace) = 9
    /\ Len(Visits) = 3

-----------------------------------------------------------------------------
(* C1, C2 *)

\* The entries next_entry yielded, in order.
Yielded ==
    LET some == SelectSeq(returned, LAMBDA r : r.tag = "Ok" /\ r.v.some)
    IN  [i \in 1..Len(some) |-> some[i].v.v]

IsVolumeLabel(entry) == (entry.attributes \div 8) % 2 = 1

IsLongName(entry) == entry.attributes % 16 = 15

\* C1: every entry next_entry returns is not unused (first name byte neither
\* 0x00 nor 0xE5), not a volume label (attribute bit 0x08) and not a
\* long-name fragment (attribute low nibble 0x0F).
C1_YieldedEntriesListed ==
    \A i \in 1..Len(Yielded) :
        /\ Yielded[i].name0 \notin {\h00, \hE5}
        /\ ~IsVolumeLabel(Yielded[i])
        /\ ~IsLongName(Yielded[i])

\* The chain from cluster start ends in a cluster whose FAT entry is
\* end-of-chain.
ChainEndsInEoc(img, start) ==
    LET chain == ChainFrom(img, start, LastCluster)
    IN  /\ OnMedium(start)
        /\ Len(chain) < LastCluster
        /\ SlotLow28(ImageFatSlot(img, chain[Len(chain)])) >= \h0FFFFFF8

\* The 32-byte records of the clusters of chain, in on-disk order.
ChainRecords(img, chain) ==
    LET n == img.spc * EntriesPerSector
    IN  [i \in 1..(Len(chain) * n) |->
            ClusterEntry(img, chain[(i - 1) \div n + 1], (i - 1) % n)]

\* The records before the first 0x00 terminator.
BeforeTerminator(records) ==
    LET ends == {i \in 1..Len(records) : records[i].name0 = \h00}
    IN  IF ends = {} THEN records
        ELSE SubSeq(records, 1, (CHOOSE i \in ends : \A j \in ends : i <= j) - 1)

\* What iterating the directory at the root cluster is to yield.
Listing(img) ==
    SelectSeq(BeforeTerminator(ChainRecords(img, ChainFrom(img, img.root, LastCluster))),
              LAMBDA e : e.name0 # \hE5 /\ ~IsLongName(e) /\ ~IsVolumeLabel(e))

\* C2: on a directory whose chain ends in end-of-chain, of any cluster size
\* up to 4096 bytes, the calls of next_entry (none of them failing) return
\* the listed entries before the terminator in on-disk order, once each,
\* across the clusters of the chain, and then none.
C2_IteratesWholeChain ==
    (/\ it_pc = "ready"
     /\ ChainEndsInEoc(image, image.root)
     /\ \A i \in 1..Len(returned) : returned[i].tag = "Ok") =>
        \A i \in 1..Len(returned) :
            returned[i] = IF i <= Len(Listing(image))
                          THEN Ok(Some(Listing(image)[i]))
                          ELSE Ok(None)

-----------------------------------------------------------------------------
(* C11 - C13 *)

\* The invariants of a valid geometry: a power-of-two cluster of at most
\* 4096 bytes, sectors of 512 bytes or more, a root cluster on the volume.
ValidGeometry(g) ==
    /\ g.sectors_per_cluster.hi = 0
    /\ IsPowerOfTwo(g.sectors_per_cluster.lo)
    /\ N(g.bytes_per_sector) >= SECTOR_SIZE
    /\ N(g.sectors_per_cluster) * N(g.bytes_per_sector) <= BUFFER_SIZE
    /\ U32Ge(g.root_cluster, U32(2))

\* first_data_sector + (c - 2) * sectors_per_cluster as an integer, for
\* c >= 2: the limbs of the sum, the high one not reduced.
ExactLba(g, c) ==
    LET spc == g.sectors_per_cluster.lo
        lo  == g.first_data_sector.lo + spc * c.lo + Limb - 2 * spc
        hi  == g.first_data_sector.hi + spc * c.hi + lo \div Limb - 1
    IN  [hi |-> hi, lo |-> lo % Limb]

\* C11: for a valid geometry G and every cluster c >= 2, cluster_to_lba(G, c)
\* returns first_data_sector + (c - 2) * sectors_per_cluster, the exact
\* integer.
C11_ClusterToLbaExact ==
    (/\ call.op = "cluster_to_lba"
     /\ ValidGeometry(geom)
     /\ U32Ge(call.cluster, U32(2))) =>
        outcome.res = Ok(ExactLba(geom, call.cluster))

\* C12: read_fat_entry(cluster) with cluster < 2 fails with
\* InvalidCluster(cluster) and issues no device read.
C12_FatEntryInvalidCluster ==
    (call.op = "read_fat_entry" /\ call.cluster \in {U32(0), U32(1)}) =>
        /\ outcome.res = Err(InvalidCluster(call.cluster))
        /\ outcome.reads = <<>>

\* read_fat_entry(1) was called and failed with InvalidCluster(1).
C12_Witness ==
    /\ call.op = "read_fat_entry"
    /\ call.cluster = U32(1)
    /\ outcome.res = Err(InvalidCluster(U32(1)))

\* C13: read_cluster with cluster < 2 returns InvalidCluster(cluster); with
\* cluster >= 2 and a buffer shorter than sectors_per_cluster *
\* bytes_per_sector it returns BufferTooSmall; in both cases it issues no
\* device read and leaves the buffer as it was.
C13_ReadClusterPreconditions ==
    call.op = "read_cluster" =>
        /\ U32Lt(call.cluster, U32(2)) =>
                /\ outcome.res = Err(InvalidCluster(call.cluster))
                /\ outcome.reads = <<>>
                /\ outcome.buf = CallBuffer(call.buf_len)
        /\ (/\ U32Ge(call.cluster, U32(2))
            /\ call.buf_len < N(geom.sectors_per_cluster) * N(geom.bytes_per_sector)) =>
                /\ outcome.res = Err(Fat32Error("BufferTooSmall"))
                /\ outcome.reads = <<>>
                /\ outcome.buf = CallBuffer(call.buf_len)

\* read_cluster(2, buf) with a 512-byte buffer on a volume of 4096-byte
\* clusters returned BufferTooSmall.
C13_Witness ==
    /\ call.op = "read_cluster"
    /\ call.cluster = U32(2)
    /\ call.buf_len = 512
    /\ N(geom.sectors_per_cluster) * N(geom.bytes_per_sector) = 4096
    /\ outcome.res = Err(Fat32Error("BufferTooSmall"))

-----------------------------------------------------------------------------
(* C14 - C20 *)

\* C14: on a volume whose cluster is larger than the 4096-byte scratch
\* buffer, opening the root directory iterator fails with BufferTooSmall
\* (as read_cluster_chain does), it neither reads nor aborts.
C14_OpenDirBufferTooSmall ==
    (it_pc # "none" /\ cluster_size(geom) > BUFFER_SIZE) =>
        it_new = Err(Fat32Error("BufferTooSmall"))

\* C15: after a successful mount, whatever the BPB accepted and the device
\* content, read_fat_entry and read_cluster succeed or return an error
\* value; they never panic.
C15_NoPanic ==
    call.op \in {"read_fat_entry", "read_cluster"} => outcome.res # Panic

\* C16: on a volume mounted from the boot sector its medium was formatted
\* with, read_fat_entry and read_cluster called with a cluster number
\* beyond the last cluster of the volume fail with InvalidCluster.
C16_BeyondVolumeInvalidCluster ==
    (/\ call.op \in {"read_fat_entry", "read_cluster"}
     /\ boot_sector = VolumeBoot(image)
     /\ U32Lt(U32(LastCluster), call.cluster)) =>
        outcome.res = Err(InvalidCluster(call.cluster))

\* C17: once next_entry has returned none the iterator is exhausted: it is
\* marked done, and every later call returns none, yields no entry and
\* issues no device read.
C17_ExhaustionAbsorbing ==
    /\ (\E i \in 1..Len(returned) : returned[i] = Ok(None)) =>
            it_done /\ it_pc = "ready"
    /\ \A i, j \in 1..Len(returned) :
            (i < j /\ returned[i] = Ok(None)) =>
                returned[j] = Ok(None) /\ ~it_reads[j]

\* The iterator yielded an entry, answered none after consulting the FAT,
\* and answered none again.
C17_Witness ==
    /\ Len(returned) >= 3
    /\ returned[1].tag = "Ok" /\ returned[1].v.some
    /\ returned[Len(returned) - 1] = Ok(None)
    /\ it_reads[Len(returned) - 1]
    /\ returned[Len(returned)] = Ok(None)

\* C18: the iterator never decodes a record at a buffer offset at or past
\* the cluster size: its offset, 32 past the last record decoded, stays
\* within the cluster.
C18_DecodesWithinCluster ==
    it_pc \in {"ready", "running"} => it_offset <= cluster_size(geom)

\* (cluster * 4) as an integer: its limbs, the high one not reduced.
ExactFatOffset(c) ==
    [hi |-> 4 * c.hi + (4 * c.lo) \div Limb, lo |-> (4 * c.lo) % Limb]

\* C19: for every cluster >= 2 read_fat_entry issues exactly one device
\* read, of one sector at fat_start_lba + (cluster * 4) / bytes_per_sector,
\* and, the read succeeding, returns the little-endian word at byte
\* (cluster * 4) mod bytes_per_sector of that sector masked to 28 bits.
\* (bytes_per_sector is taken to divide 2^16, as every sector size does.)
C19_FatEntryRead ==
    (call.op = "read_fat_entry" /\ U32Ge(call.cluster, U32(2))) =>
        LET bps == N(geom.bytes_per_sector)
            off == ExactFatOffset(call.cluster)
        IN  IF bps = 0 THEN FALSE
            ELSE
            LET sector == N(geom.fat_start_lba) + off.hi * (Limb \div bps)
                              + off.lo \div bps
                byte   == off.lo % bps
                word   == u32_from_le_bytes(ImageSlot(image, sector, byte))
            IN  /\ Len(outcome.reads) = 1
                /\ outcome.reads[1].op = "read_sectors"
                /\ outcome.reads[1].count = 1
                /\ outcome.reads[1].lba = U32(sector)
                /\ outcome.reads[1].res = "Ok" =>
                        /\ outcome.res = Ok(FatEntry_new(
                                [hi |-> word.hi % 4096, lo |-> word.lo]))
                        /\ outcome.res.v.value.hi < 4096

\* C20: when the FAT entry read for the cluster just visited is free (0) or
\* bad (0x0FFFFFF7) the walk stops there: it returns success, having
\* visited that cluster last and advanced to no other.
C20_TruncatedChainStops ==
    LET n == Len(trace)
    IN  (/\ w_pc = "done"
         /\ n >= 2
         /\ trace[n].op = "read_sectors" /\ trace[n].res = "Ok"
         /\ trace[n - 1].op = "callback"
         /\ OnMedium(N(trace[n - 1].cluster))
         /\ SlotLow28(ImageFatSlot(image, N(trace[n - 1].cluster)))
                \in {0, \h0FFFFFF7}) =>
            /\ w_result = Ok("unit")
            /\ current_cluster = trace[n - 1].cluster

\* A walk from cluster 2 ended in success at cluster 3, whose FAT entry is
\* free.
C20_Witness ==
    /\ w_pc = "done"
    /\ w_result = Ok("unit")
    /\ w_start = U32(2)
    /\ current_cluster = U32(3)
    /\ SlotLow28(ImageFatSlot(image, 3)) = 0
    /\ Len(Visits) = 2

-----------------------------------------------------------------------------
(* C21 - C25 *)

\* C21: when the visitor returns an error e for a cluster, the walk is over
\* with exactly e as its result, and the failed visitor call is the last
\* event of the walk: no device read and no visitor call follows it.
C21_VisitorErrorPropagates ==
    \A i \in 1..Len(trace) :
        (trace[i].op = "callback" /\ trace[i].res # "Ok") =>
            /\ i = Len(trace)
            /\ w_pc = "done"
            /\ w_result = Err(Fat32Error(trace[i].res))

\* The visitor failed on the second cluster of a chain, after a first
\* cluster visited and advanced from.
C21_Witness ==
    /\ w_pc = "done"
    /\ Len(trace) = 5
    /\ trace[2].op = "callback" /\ trace[2].res = "Ok"
    /\ trace[5].op = "callback" /\ trace[5].res = "IoError"
    /\ trace[2].cluster = U32(2) /\ trace[5].cluster = U32(3)
    /\ w_result = Err(Fat32Error("IoError"))

\* The read e of the device failed.
ReadFailed(e) == e.op = "read_sectors" /\ e.res # "Ok"

\* The device error of the failed read e, converted.
Converted(e) == Err(Fat32Error(e.res))

\* C22: a device read that fails ends the operation at that read with the
\* device's error converted kind for kind (IoError as IoError, OutOfBounds as
\* OutOfBounds): in read_fat_entry and read_cluster, in the walk (where no
\* visitor call and no read follows the failed read) and in the iterator
\* (where the failed read is the last of the call and the call has returned
\* the error).
C22_DeviceFailureAborts ==
    /\ \A i \in 1..Len(trace) :
          ReadFailed(trace[i]) =>
              /\ i = Len(trace)
              /\ w_pc = "done"
              /\ w_result = Converted(trace[i])
    /\ call.op \in {"read_fat_entry", "read_cluster"} =>
          /\ Len(outcome.reads) <= 1
          /\ \A i \in 1..Len(outcome.reads) :
                ReadFailed(outcome.reads[i]) =>
                    outcome.res = Converted(outcome.reads[i])
    /\ \A i \in 1..Len(it_log) :
          ReadFailed(it_log[i]) =>
              /\ i = Len(it_log)
              /\ IF it_new.tag = "Ok"
                 THEN /\ it_pc = "ready"
                      /\ returned # <<>>
                      /\ returned[Len(returned)] = Converted(it_log[i])
                 ELSE /\ it_pc = "failed"
                      /\ it_new = Converted(it_log[i])

\* The walk was ended by a failed read of the second cluster's data, after
\* the first cluster was read, visited and advanced from.
C22_Witness ==
    /\ w_pc = "done"
    /\ Len(trace) = 4
    /\ trace[2].op = "callback"
    /\ ReadFailed(trace[4])
    /\ trace[4].res = "OutOfBounds"
    /\ trace[4].count = image.spc
    /\ w_result = Err(Fat32Error("OutOfBounds"))

\* addr rounded up to a multiple of align, exactly: overflow when the
\* multiple is not a usize.
ExactAlignUp(addr, align) ==
    IF AndNotLowBits(addr, align) = addr
    THEN [v |-> addr, overflow |-> FALSE]
    ELSE U32Add(AndNotLowBits(addr, align), align)

\* The request layout fits between next, rounded up, and end.
Fits(next, layout, end) ==
    LET up   == ExactAlignUp(next, layout.align)
        stop == U32Add(up.v, layout.size)
    IN  ~up.overflow /\ ~stop.overflow /\ ~U32Lt(end, stop.v)

\* The allocator was given its heap by init.
ExplicitHeap == al_log # <<>> /\ al_log[1].op = "init"

\* The calls of alloc that returned a pointer other than null.
Allocated ==
    {i \in 2..Len(al_log) : al_log[i].ret.tag = "Ok" /\ al_log[i].ret.v # null_mut}

\* The region of allocation i lies in [from, to), without wrapping.
RegionWithin(i, from, to) ==
    LET ptr  == al_log[i].ret.v
        stop == U32Add(ptr, al_log[i].layout.size)
    IN  U32Ge(ptr, from) /\ ~stop.overflow /\ ~U32Lt(to, stop.v)

\* C23: on an allocator given the heap [start, start + size) by init, every
\* pointer alloc returns other than null is aligned to its layout, its
\* region lies inside the heap and after every region returned before it;
\* no call of alloc lowers the bump pointer; a call that returns null leaves
\* the bump pointer alone, and a call whose request does not fit returns
\* null.
C23_BumpAllocatorSound ==
    ExplicitHeap =>
        /\ \A i \in Allocated :
              /\ AndNotLowBits(al_log[i].ret.v, al_log[i].layout.align)
                     = al_log[i].ret.v
              /\ RegionWithin(i, heap.start, heap.end)
              /\ \A j \in Allocated :
                    j < i => RegionWithin(j, heap.start, al_log[i].ret.v)
        /\ \A i \in 2..Len(al_log) :
              /\ U32Ge(al_log[i].after, al_log[i].before)
              /\ al_log[i].ret = Ok(null_mut) => al_log[i].after = al_log[i].before
              /\ ~Fits(al_log[i].before, al_log[i].layout, heap.end) =>
                    /\ al_log[i].ret = Ok(null_mut)
                    /\ al_log[i].after = al_log[i].before

\* C24: every call of next_entry returns: a call that has entered the loop
\* leaves it, whatever the volume holds.
C24_NextEntryTerminates == (it_pc = "running") ~> (it_pc # "running")

\* A call of next_entry on the iterator has failed with a device error.
DeviceErrorReturned ==
    \E i \in 1..Len(returned) :
        returned[i] \in {Err(Fat32Error("IoError")), Err(Fat32Error("OutOfBounds"))}

\* The iterator's buffer holds the records of its current cluster.
BufferDescribesCluster ==
    OnMedium(N(it_cluster)) =>
        \A k \in 0..(image.spc * EntriesPerSector - 1) :
            it_buffer[k] = ClusterEntry(image, N(it_cluster), k)

\* C25: after a call of next_entry has failed with a device error, the
\* iterator's buffer still holds the records of its current cluster, and
\* an entry a later call yields is the record before offset of the current
\* cluster.
C25_ConsistentAfterDeviceError ==
    (it_pc \in {"ready", "running"} /\ DeviceErrorReturned) =>
        /\ BufferDescribesCluster
        /\ (it_pc = "ready" /\ OnMedium(N(it_cluster))
              /\ returned[Len(returned)].tag = "Ok"
              /\ returned[Len(returned)].v.some
              /\ it_offset <= image.spc * SECTOR_SIZE) =>
                returned[Len(returned)].v.v
                    = ClusterEntry(image, N(it_cluster), it_offset \div DIR_ENTRY_SIZE - 1)

=============================================================================
